---- MODULE Spec2Model ----
(***************************************************************************)
(* Countdown script backend/images/image1/main.py: main() prints a start   *)
(* line, counts i over range(30, 0, -1) printing a progress line per       *)
(* iteration (plus a stderr checkpoint line at 30, 20, 10 and 1), sleeps   *)
(* one second per iteration, then prints two completion lines.             *)
(*                                                                         *)
(* pc names the source line about to execute ("L6" .. "L17"), "ret" is the *)
(* return of main() to the module level (line 21) and "exit" the ended     *)
(* process.  output is the merged, program-ordered log of the lines that   *)
(* main() wrote; each entry records its stream and its text.               *)
(***************************************************************************)
EXTENDS Integers, Sequences, FiniteSets, TLC

VARIABLES pc, i, it, iters, output, pauses, elapsed, interrupted, exitStatus,
          run, prevOutput, prevInterrupted

vars == <<pc, i, it, iters, output, pauses, elapsed, interrupted, exitStatus,
          run, prevOutput, prevInterrupted>>

procVars == <<pc, i, it, iters, output, pauses, elapsed, interrupted, exitStatus>>
histVars == <<run, prevOutput, prevInterrupted>>

\* Number of times the program is launched in sequence (SpecTwice only).
MaxRuns == 2

----------------------------------------------------------------------------
\* Program constants

RangeStart == 30

RangeStopOffByOne == 0 + 1
RangeStopInclusiveZero == 0 - 1
RangeStop == 0

RangeStepTwo == 0 - 2
RangeStep == 0 - 1

CheckpointsMissingLast == {30, 20, 10}
Checkpoints == {30, 20, 10, 1}

SleepSeconds == 1

\* Signals of the environment that end a blocked time.sleep: SIGINT (raised
\* as KeyboardInterrupt, which nothing in main.py catches) and SIGTERM.
Signals == {2, 15}

\* Exit status of a process ended by signal sig, as a shell reports it.
SignalStatus(sig) == 128 + sig

----------------------------------------------------------------------------
\* Text formatting

DigitChars == <<"0", "1", "2", "3", "4", "5", "6", "7", "8", "9">>

\* str(n) of an f-string replacement field {n}: the decimal digits of n.
RECURSIVE Str(_)
Str(n) ==
    IF n < 0 THEN <<"-">> \o Str(0 - n)
    ELSE IF n < 10 THEN <<DigitChars[n + 1]>>
    ELSE Str(n \div 10) \o <<DigitChars[(n % 10) + 1]>>

StartLine ==
    [stream |-> "stdout", text |-> <<"Starting 30-second wait...">>]

WaitingLine(n) ==
    [stream |-> "stdout",
     text |-> <<"Waiting... ">> \o Str(n) \o <<" seconds remaining">>]

CheckpointLine(n) ==
    [stream |-> "stderr",
     text |-> <<"STDERR: checkpoint at ">> \o Str(n) \o <<" seconds remaining">>]

ExitingLine ==
    [stream |-> "stdout", text |-> <<"30 seconds have passed! Exiting...">>]

FinishedLine ==
    [stream |-> "stderr", text |-> <<"STDERR: finished countdown without errors">>]

\* Membership test of range(RangeStart, RangeStop, RangeStep) for the next value.
InRange(v) == IF RangeStep < 0 THEN v > RangeStop ELSE v < RangeStop

----------------------------------------------------------------------------
\* State after the interpreter has loaded the module and called main().
\* i is unbound until the first iteration; 0 stands for unbound.

ProcInit ==
    /\ pc = "L6"
    /\ i = 0
    /\ it = RangeStart
    /\ iters = 0
    /\ output = <<>>
    /\ pauses = 0
    /\ elapsed = 0
    /\ interrupted = FALSE
    /\ exitStatus = 0 - 1

Init ==
    /\ ProcInit
    /\ run = 1
    /\ prevOutput = <<>>
    /\ prevInterrupted = FALSE

----------------------------------------------------------------------------
\* Statements of main()

\* line 6
PrintStart ==
    /\ pc = "L6"
    /\ output' = Append(output, StartLine)
    /\ pc' = "L9"
    /\ UNCHANGED <<i, it, iters, pauses, elapsed, interrupted, exitStatus, histVars>>

\* line 9: the for statement asks the range iterator for its next value
ForNext ==
    /\ pc = "L9"
    /\ IF InRange(it)
         THEN /\ i' = it
              /\ it' = it + RangeStep
              /\ iters' = iters + 1
              /\ pc' = "L10"
         ELSE /\ pc' = "L16"
              /\ UNCHANGED <<i, it, iters>>
    /\ UNCHANGED <<output, pauses, elapsed, interrupted, exitStatus, histVars>>

\* lines 10-13 with the two prints swapped
PrintWaitingAfterCheckpoint ==
    /\ pc = "L10"
    /\ output' = IF i \in Checkpoints
                   THEN output \o <<CheckpointLine(i), WaitingLine(i)>>
                   ELSE Append(output, WaitingLine(i))
    /\ pc' = "L14"
    /\ UNCHANGED <<i, it, iters, pauses, elapsed, interrupted, exitStatus, histVars>>

\* line 10
PrintWaiting ==
    /\ pc = "L10"
    /\ output' = Append(output, WaitingLine(i))
    /\ pc' = "L12"
    /\ UNCHANGED <<i, it, iters, pauses, elapsed, interrupted, exitStatus, histVars>>

\* line 12 with the sleep indented under the if
TestCheckpointSleepInside ==
    /\ pc = "L12"
    /\ pc' = IF i \in Checkpoints THEN "L13" ELSE "L9"
    /\ UNCHANGED <<i, it, iters, output, pauses, elapsed, interrupted, exitStatus, histVars>>

\* line 12
TestCheckpoint ==
    /\ pc = "L12"
    /\ pc' = IF i \in Checkpoints THEN "L13" ELSE "L14"
    /\ UNCHANGED <<i, it, iters, output, pauses, elapsed, interrupted, exitStatus, histVars>>

\* line 13
PrintCheckpoint ==
    /\ pc = "L13"
    /\ output' = Append(output, CheckpointLine(i))
    /\ pc' = "L14"
    /\ UNCHANGED <<i, it, iters, pauses, elapsed, interrupted, exitStatus, histVars>>

\* line 14: the pause runs to its end
Sleep ==
    /\ pc = "L14"
    /\ pauses' = pauses + 1
    /\ elapsed' = elapsed + SleepSeconds
    /\ pc' = "L9"
    /\ UNCHANGED <<i, it, iters, output, interrupted, exitStatus, histVars>>

\* line 14 inside a try whose handler swallows the interruption
SleepInterruptedSwallowed ==
    /\ pc = "L14"
    /\ \E sig \in Signals :
         /\ interrupted' = TRUE
         /\ pc' = "L9"
    /\ UNCHANGED <<i, it, iters, output, pauses, elapsed, exitStatus, histVars>>

\* line 14: the environment interrupts the pause; no handler exists in
\* main() or at the module level, so the process ends there.
SleepInterrupted ==
    /\ pc = "L14"
    /\ \E sig \in Signals :
         /\ interrupted' = TRUE
         /\ exitStatus' = SignalStatus(sig)
         /\ pc' = "exit"
    /\ UNCHANGED <<i, it, iters, output, pauses, elapsed, histVars>>

\* lines 16-17 with the two prints swapped
PrintExitingAfterFinished ==
    /\ pc = "L16"
    /\ output' = output \o <<FinishedLine, ExitingLine>>
    /\ pc' = "ret"
    /\ UNCHANGED <<i, it, iters, pauses, elapsed, interrupted, exitStatus, histVars>>

\* line 16
PrintExiting ==
    /\ pc = "L16"
    /\ output' = Append(output, ExitingLine)
    /\ pc' = "L17"
    /\ UNCHANGED <<i, it, iters, pauses, elapsed, interrupted, exitStatus, histVars>>

\* line 17
PrintFinished ==
    /\ pc = "L17"
    /\ output' = Append(output, FinishedLine)
    /\ pc' = "ret"
    /\ UNCHANGED <<i, it, iters, pauses, elapsed, interrupted, exitStatus, histVars>>

\* lines 20-21 ending with a failure status
ExitFailure ==
    /\ pc = "ret"
    /\ exitStatus' = 1
    /\ pc' = "exit"
    /\ UNCHANGED <<i, it, iters, output, pauses, elapsed, interrupted, histVars>>

\* lines 20-21: main() returned; the module body ends and the interpreter
\* exits with status 0.
Exit ==
    /\ pc = "ret"
    /\ exitStatus' = 0
    /\ pc' = "exit"
    /\ UNCHANGED <<i, it, iters, output, pauses, elapsed, interrupted, histVars>>

\* a second launch that keeps the exhausted iterator of the first
RelaunchStale ==
    /\ pc = "exit"
    /\ run < MaxRuns
    /\ run' = run + 1
    /\ prevOutput' = output
    /\ prevInterrupted' = interrupted
    /\ pc' = "L6"
    /\ output' = <<>>
    /\ pauses' = 0
    /\ elapsed' = 0
    /\ interrupted' = FALSE
    /\ exitStatus' = 0 - 1
    /\ UNCHANGED <<i, it, iters>>

\* lines 20-21 again: the script is launched once more as a new process.
\* prevOutput and prevInterrupted remember what the previous launch did.
Relaunch ==
    /\ pc = "exit"
    /\ run < MaxRuns
    /\ run' = run + 1
    /\ prevOutput' = output
    /\ prevInterrupted' = interrupted
    /\ pc' = "L6"
    /\ i' = 0
    /\ it' = RangeStart
    /\ iters' = 0
    /\ output' = <<>>
    /\ pauses' = 0
    /\ elapsed' = 0
    /\ interrupted' = FALSE
    /\ exitStatus' = 0 - 1

Run ==
    \/ PrintStart
    \/ ForNext
    \/ PrintWaiting
    \/ TestCheckpoint
    \/ PrintCheckpoint
    \/ Sleep
    \/ PrintExiting
    \/ PrintFinished
    \/ Exit

Next ==
    \/ PrintStart
    \/ ForNext
    \/ PrintWaiting
    \/ TestCheckpoint
    \/ PrintCheckpoint
    \/ Sleep
    \/ SleepInterrupted
    \/ PrintExiting
    \/ PrintFinished
    \/ Exit

NextTwice ==
    \/ PrintStart
    \/ ForNext
    \/ PrintWaiting
    \/ TestCheckpoint
    \/ PrintCheckpoint
    \/ Sleep
    \/ SleepInterrupted
    \/ PrintExiting
    \/ PrintFinished
    \/ Exit
    \/ Relaunch

\* One launch; any pause may be interrupted.
Spec == Init /\ [][Next]_vars

\* One launch of a sequential program: a statement that can run does run.
FairSpec == Init /\ [][Next]_vars /\ WF_vars(Run)

\* MaxRuns launches in sequence.
SpecTwice == Init /\ [][NextTwice]_vars

----------------------------------------------------------------------------
\* Vocabulary of the properties

Stdout(log) == SelectSeq(log, LAMBDA e : e.stream = "stdout")
Stderr(log) == SelectSeq(log, LAMBDA e : e.stream = "stderr")

IsPrefix(s, t) == Len(s) <= Len(t) /\ \A k \in 1..Len(s) : s[k] = t[k]
IsProperPrefix(s, t) == IsPrefix(s, t) /\ Len(s) < Len(t)

Positions(log, line) == {k \in 1..Len(log) : log[k] = line}
Count(log, line) == Cardinality(Positions(log, line))

\* main() has run to its end without an interrupted pause.
Completed == pc \in {"ret", "exit"} /\ ~interrupted

\* The loop is over (the spec's Done), as opposed to Start ("L6") and Counting.
LoopOver == pc \in {"L16", "L17", "ret"} \/ (pc = "exit" /\ ~interrupted)
Counting == iters >= 1 /\ ~LoopOver

\* The 32 lines of the primary stream: start, 30 down to 1, completion.
ExpectedStdout ==
    [k \in 1..32 |-> IF k = 1 THEN StartLine
                     ELSE IF k = 32 THEN ExitingLine
                     ELSE WaitingLine(32 - k)]

\* The 5 lines of the secondary stream.
ExpectedStderr ==
    <<CheckpointLine(30), CheckpointLine(20), CheckpointLine(10),
      CheckpointLine(1), FinishedLine>>

----------------------------------------------------------------------------
\* C1: in every uninterrupted run the primary stream carries exactly 32
\* lines: the start line, "Waiting... n seconds remaining" for n = 30 down to
\* 1, each once and in that order, then the completion line; while the run
\* is under way the primary stream is a prefix of those 32 lines.
C1_PrimaryStream ==
    /\ IsPrefix(Stdout(output), ExpectedStdout)
    /\ Completed =>
         /\ Len(Stdout(output)) = 32
         /\ Stdout(output) = ExpectedStdout
         /\ Stdout(output)[1].text = <<"Starting 30-second wait...">>
         /\ Stdout(output)[2].text = <<"Waiting... ", "3", "0", " seconds remaining">>
         /\ Stdout(output)[22].text = <<"Waiting... ", "1", "0", " seconds remaining">>
         /\ Stdout(output)[31].text = <<"Waiting... ", "1", " seconds remaining">>
         /\ Stdout(output)[32].text = <<"30 seconds have passed! Exiting...">>
         /\ \A n \in 1..30 : Count(output, WaitingLine(n)) = 1

C1_Witness == pc = "exit" /\ ~interrupted /\ Len(Stdout(output)) = 32

\* The secondary stream is a prefix of its 5 lines, and all 5 at the end.
C2_SecondaryInv ==
    /\ IsPrefix(Stderr(output), ExpectedStderr)
    /\ Completed =>
         /\ Len(Stderr(output)) = 5
         /\ Stderr(output) = ExpectedStderr
         /\ Stderr(output)[2].text =
              <<"STDERR: checkpoint at ", "2", "0", " seconds remaining">>
    /\ \A n \in 1..30 : n \notin {30, 20, 10, 1} => Count(output, CheckpointLine(n)) = 0

\* A step of an iteration that writes to the secondary stream is a step of a
\* checkpoint iteration.
C2_SecondaryStep ==
    (pc \in {"L10", "L12", "L13", "L14"} /\ Stderr(output') # Stderr(output)) =>
        i \in {30, 20, 10, 1}

\* C2: in every uninterrupted run the secondary stream carries exactly 5
\* lines, the checkpoint lines for 30, 20, 10 and 1 in that order and then
\* the finished line; an iteration whose counter is not a checkpoint writes
\* nothing to the secondary stream.
C2_SecondaryStream == []C2_SecondaryInv /\ [][C2_SecondaryStep]_vars

C2_Witness == pc = "exit" /\ ~interrupted /\ Len(Stderr(output)) = 5

\* C3: in the merged output, the checkpoint line for n in {30, 20, 10, 1}
\* comes strictly after the primary line of iteration n and strictly before
\* the primary line of iteration n-1 (for n = 1, before the completion line).
C3_CheckpointOrder ==
    \A n \in {30, 20, 10, 1} :
        LET next == IF n = 1 THEN ExitingLine ELSE WaitingLine(n - 1)
        IN  /\ \A p \in Positions(output, CheckpointLine(n)) :
                 /\ \E q \in Positions(output, WaitingLine(n)) : q < p
                 /\ \A q \in Positions(output, next) : p < q
            /\ \A q \in Positions(output, next) :
                 \E p \in Positions(output, CheckpointLine(n)) : p < q

C3_Witness ==
    /\ Positions(output, CheckpointLine(20)) # {}
    /\ Positions(output, WaitingLine(19)) # {}
    /\ Positions(output, CheckpointLine(1)) # {}
    /\ Positions(output, ExitingLine) # {}

\* C4: a run in which no pause is interrupted terminates: it reaches the
\* end of the process after exactly 30 iterations, with the completion line
\* on the primary stream and exit status 0.
C4_Terminates ==
    ([](~interrupted)) =>
        <>(/\ pc = "exit"
           /\ iters = 30
           /\ Count(output, ExitingLine) = 1
           /\ exitStatus = 0)

C4_Witness == pc = "exit" /\ ~interrupted /\ iters = 30 /\ exitStatus = 0

\* C5: the finished line is written once per uninterrupted run, strictly
\* after the primary completion line, and it is the last line on either
\* stream.
C5_FinishedLast ==
    /\ Count(output, FinishedLine) <= 1
    /\ \A p \in Positions(output, FinishedLine) :
         /\ p = Len(output)
         /\ \E q \in Positions(output, ExitingLine) : q < p
    /\ Completed => Count(output, FinishedLine) = 1

C5_Witness == pc = "exit" /\ ~interrupted /\ Count(output, FinishedLine) = 1

\* C6 as stated: the exit status is 0 in every run, also when a pause is
\* interrupted.
C6_AlwaysZero == pc = "exit" => exitStatus = 0

\* C6 as amended: the exit status is 0 in every run in which no pause is
\* interrupted; a run whose pause is interrupted ends with the status the
\* interruption implies, which is not 0.
C6_ZeroUnlessInterrupted ==
    pc = "exit" =>
        /\ ~interrupted => exitStatus = 0
        /\ interrupted => exitStatus # 0 /\ \E sig \in Signals : exitStatus = 128 + sig

C6_Witness == pc = "exit" /\ interrupted /\ exitStatus = 130

\* C7: a second launch after an uninterrupted first one starts again at 30
\* and writes the same lines in the same merged order: its output is at
\* every moment a prefix of the first launch's, and equal to it at the end.
C7_SameOutputTwice ==
    (run >= 2 /\ ~prevInterrupted) =>
        /\ IsPrefix(output, prevOutput)
        /\ Len(prevOutput) = 37
        /\ iters = 1 => i = 30
        /\ Completed => output = prevOutput

C7_Witness ==
    /\ run = 2 /\ ~prevInterrupted /\ pc = "exit" /\ ~interrupted
    /\ Len(output) = 37

\* The counter while counting and after the loop, and how one step changes it.
C8_CountingInv ==
    /\ Counting => i \in 1..30 /\ i = 31 - iters
    /\ iters = 1 => i = 30
    /\ LoopOver => i = 1 /\ iters = 30

C8_CountingStep ==
    /\ iters' # iters => iters' = iters + 1 /\ i' = IF iters = 0 THEN 30 ELSE i - 1
    /\ i' # i => iters' # iters
    /\ LoopOver => LoopOver' /\ i' = i /\ iters' = iters
    /\ pc # "L6" => pc' # "L6"

\* C8: Start -> Counting(30) -> ... -> Counting(1) -> Done.  While counting
\* the counter is in 1..30, its first value is 30, each change lowers it by
\* exactly 1, the loop ends with the counter at 1 after 30 iterations, and
\* once the loop is over it is over for good and the counter stays put.
C8_LinearCountdown == []C8_CountingInv /\ [][C8_CountingStep]_vars

C8_Witness == pc = "exit" /\ ~interrupted /\ i = 1 /\ iters = 30

\* C9: an uninterrupted run makes 30 pauses of one second, one per
\* iteration, each after the iteration's lines and before the next primary
\* line; the completion line is never written before 30 seconds of pause.
C9_WaitingCount ==
    Cardinality({k \in 1..Len(output) : \E n \in 1..30 : output[k] = WaitingLine(n)})

C9_Pauses ==
    /\ elapsed = pauses
    /\ pauses <= 30
    /\ pc = "L6" => pauses = 0
    /\ pc \in {"L12", "L13", "L14"} => pauses = C9_WaitingCount - 1
    /\ pc \in {"L9", "L10", "L16", "L17", "ret"} => pauses = C9_WaitingCount
    /\ (pc = "L9" /\ iters >= 1) =>
         /\ Count(output, WaitingLine(i)) = 1
         /\ i \in {30, 20, 10, 1} => output[Len(output)] = CheckpointLine(i)
         /\ i \notin {30, 20, 10, 1} => output[Len(output)] = WaitingLine(i)
    /\ Count(output, ExitingLine) > 0 => pauses = 30 /\ elapsed = 30
    /\ Completed => pauses = 30 /\ C9_WaitingCount = 30

C9_Witness == pc = "exit" /\ ~interrupted /\ pauses = 30 /\ elapsed = 30

\* What an interrupted run has written, and what a step may do once interrupted.
C10_InterruptedInv ==
    interrupted =>
        /\ pc = "exit"
        /\ IsProperPrefix(Stdout(output), ExpectedStdout)
        /\ IsProperPrefix(Stderr(output), ExpectedStderr)
        /\ Stdout(output)[Len(Stdout(output))] = WaitingLine(i)
        /\ output[Len(output)] =
             (IF i \in {30, 20, 10, 1} THEN CheckpointLine(i) ELSE WaitingLine(i))
        /\ Count(output, ExitingLine) = 0
        /\ Count(output, FinishedLine) = 0

C10_InterruptedStep ==
    interrupted' => /\ output' = output
                    /\ pc' = "exit"
                    /\ ~interrupted => pc = "L14"

====
